---- MODULE Spec2Model ----
(***************************************************************************)
(* Jira stories -> design document.  A model of the POST /generate handler *)
(* (main.py) and of the document assembly it calls (design_doc_logic.py).  *)
(* Text is modelled by TLA+ strings, read character by character with      *)
(* SubSeq; a document is the sequence of block elements python-docx is     *)
(* asked to append.                                                        *)
(***************************************************************************)
EXTENDS Integers, Sequences, FiniteSets, TLC

(* ------------------------------ bounds -------------------------------- *)

\* number of calendar days the wall clock can show during a behaviour
MaxDay == 2

\* longest section body enumerated for the paragraph-splitting specification
MaxBodyLen == 5

(* ------------------------- Python string methods ---------------------- *)

Ch(s, i) == SubSeq(s, i, i)

\* the whitespace str.strip() removes (the ASCII part that the inputs use)
Whitespace == {" ", "\n", "\t", "\r"}

StartsAt(s, sub, i) ==
    /\ i + Len(sub) - 1 <= Len(s)
    /\ SubSeq(s, i, i + Len(sub) - 1) = sub

\* the first position from i on where sub occurs in s, 0 when there is none
NextHit(s, sub, i) ==
    LET hits == {j \in i..Len(s) : StartsAt(s, sub, j)}
    IN  IF hits = {} THEN 0 ELSE CHOOSE j \in hits : \A h \in hits : j <= h

\* str.count(sub): non-overlapping occurrences, scanning left to right
RECURSIVE CountFrom(_, _, _)
CountFrom(s, sub, i) ==
    LET hit == NextHit(s, sub, i)
    IN  IF hit = 0 THEN 0 ELSE 1 + CountFrom(s, sub, hit + Len(sub))

count(s, sub) == CountFrom(s, sub, 1)

\* str.find(sub) and str.rfind(sub), as 0-based indices, -1 when absent
find(s, sub) == NextHit(s, sub, 1) - 1

rfind(s, sub) ==
    LET hits == {i \in 1..Len(s) : StartsAt(s, sub, i)}
    IN  IF hits = {} THEN -1
        ELSE (CHOOSE i \in hits : \A j \in hits : i >= j) - 1

\* str.strip(" "): only spaces are removed, line breaks stay
strip_spaces(s) ==
    LET solid == {i \in 1..Len(s) : Ch(s, i) # " "}
    IN  IF solid = {} THEN ""
        ELSE SubSeq(s, CHOOSE i \in solid : \A j \in solid : i <= j,
                       CHOOSE i \in solid : \A j \in solid : i >= j)

\* str.strip(): without the leading and trailing whitespace
strip(s) ==
    LET solid == {i \in 1..Len(s) : Ch(s, i) \notin Whitespace}
    IN  IF solid = {} THEN ""
        ELSE SubSeq(s, CHOOSE i \in solid : \A j \in solid : i <= j,
                       CHOOSE i \in solid : \A j \in solid : i >= j)

\* str.split(sep): the chunks between the non-overlapping occurrences of
\* sep found left to right; always at least one chunk
RECURSIVE SplitFrom(_, _, _)
SplitFrom(s, sep, start) ==
    LET hit == NextHit(s, sep, start)
    IN  IF hit = 0 THEN << SubSeq(s, start, Len(s)) >>
        ELSE << SubSeq(s, start, hit - 1) >> \o SplitFrom(s, sep, hit + Len(sep))

split(s, sep) == SplitFrom(s, sep, 1)

\* sep.join(parts)
RECURSIVE join(_, _)
join(sep, parts) ==
    IF Len(parts) = 0 THEN ""
    ELSE IF Len(parts) = 1 THEN parts[1]
    ELSE parts[1] \o sep \o join(sep, Tail(parts))

\* str.replace(old, new) for a one-character old, on s[lo..hi]
RECURSIVE ReplaceIn(_, _, _, _, _)
ReplaceIn(s, old, new, lo, hi) ==
    IF lo > hi THEN ""
    ELSE IF lo = hi THEN (IF Ch(s, lo) = old THEN new ELSE Ch(s, lo))
    ELSE ReplaceIn(s, old, new, lo, (lo + hi) \div 2)
         \o ReplaceIn(s, old, new, (lo + hi) \div 2 + 1, hi)

replace(s, old, new) == ReplaceIn(s, old, new, 1, Len(s))

\* str.endswith(suffix)
endswith(s, suffix) ==
    /\ Len(suffix) <= Len(s)
    /\ SubSeq(s, Len(s) - Len(suffix) + 1, Len(s)) = suffix

\* str.lower() on ASCII letters
LowerChar(c) ==
    LET up == "ABCDEFGHIJKLMNOPQRSTUVWXYZ"
        lo == "abcdefghijklmnopqrstuvwxyz"
        at == {i \in 1..Len(up) : Ch(up, i) = c}
    IN  IF at = {} THEN c ELSE Ch(lo, CHOOSE i \in at : TRUE)

RECURSIVE LowerIn(_, _, _)
LowerIn(s, lo, hi) ==
    IF lo > hi THEN ""
    ELSE IF lo = hi THEN LowerChar(Ch(s, lo))
    ELSE LowerIn(s, lo, (lo + hi) \div 2) \o LowerIn(s, (lo + hi) \div 2 + 1, hi)

lower(s) == LowerIn(s, 1, Len(s))

\* html.escape(s, quote=True)
EscapeChar(c) ==
    CASE c = "&"  -> "&amp;"
      [] c = "<"  -> "&lt;"
      [] c = ">"  -> "&gt;"
      [] c = "\"" -> "&quot;"
      [] c = "'"  -> "&#x27;"
      [] OTHER    -> c

RECURSIVE EscapeIn(_, _, _)
EscapeIn(s, lo, hi) ==
    IF lo > hi THEN ""
    ELSE IF lo = hi THEN EscapeChar(Ch(s, lo))
    ELSE EscapeIn(s, lo, (lo + hi) \div 2) \o EscapeIn(s, (lo + hi) \div 2 + 1, hi)

html_escape(s) == EscapeIn(s, 1, Len(s))

\* decimal digits of n, left-padded with zeros to the given width
RECURSIVE Digits(_, _)
Digits(n, width) ==
    IF width = 0 THEN ""
    ELSE Digits(n \div 10, width - 1) \o Ch("0123456789", (n % 10) + 1)

\* datetime.date.isoformat(): YYYY-MM-DD
isoformat(d) ==
    Digits(d.year, 4) \o "-" \o Digits(d.month, 2) \o "-" \o Digits(d.day, 2)

\* docx.shared.Inches, in English Metric Units; the argument in tenths of
\* an inch
Inches(tenths) == (tenths * 914400) \div 10

(* ------------------------ design_doc_logic.py: data ------------------- *)

SECTIONS ==
    << "1. Overview",
       "1.1 Audience",
       "1.2 Scope",
       "1.3 Shared Responsibility Matrix",
       "1.4 Software Development Life Cycle (SDLC)",
       "2. Solution Overview",
       "2.1 Business Requirements",
       "2.2 Solution Summary",
       "2.3 Architectural Diagram",
       "2.4 Solution Components",
       "2.5 Custom APIs & Connectors",
       "2.6 Data Storage & Dataverse",
       "2.7 Integrations",
       "2.8 Automation Scheduling",
       "2.9 Exception Handling in Power Automate Flows",
       "2.10 Data & Retention Policy",
       "3. Security",
       "3.1 Authentication & Authorization",
       "3.2 App Security",
       "3.3 Security in DevOps",
       "4. Deployment & DevOps",
       "5. Non-Functional Requirements",
       "6. Risks & Assumptions",
       "7. References & Appendix" >>

\* the title the assembly loop compares each section title with
DIAGRAM_TITLE == "2.3 Architectural Diagram"

\* The section list is a module-level list the source invites to adapt; the
\* catalogs a behaviour can start with are the shipped one and four edited
\* ones: two titles only, none at all, titles with zero, one, two and three
\* dots, and one with an empty title.
Catalogs ==
    { SECTIONS,
      << "1. Overview", "1.1 Audience" >>,
      << >>,
      << "Appendix", "2.3 Architectural Diagram", "3.1.1 Tokens",
         "v1.2.3. Notes" >>,
      << "1. Overview", "", "1.2 Scope" >> }

(* ------------------------------ JSON values --------------------------- *)

JStr(s)   == [t |-> "str", v |-> s]
JInt(n)   == [t |-> "int", v |-> n]
JList(xs) == [t |-> "list", v |-> xs]
JDict(d)  == [t |-> "dict", v |-> d]
JNull     == [t |-> "NoneType"]

EmptyDict == [k \in {} |-> JNull]

\* Python truth value of a parsed JSON value (the test of "if not body")
Truthy(x) ==
    CASE x.t = "str"      -> Len(x.v) > 0
      [] x.t = "int"      -> x.v # 0
      [] x.t = "list"     -> Len(x.v) > 0
      [] x.t = "dict"     -> DOMAIN x.v # {}
      [] x.t = "NoneType" -> FALSE

\* dict.get(key, default)
get(d, key, default) == IF key \in DOMAIN d THEN d[key] ELSE default

(* -------------------- the model service's possible answers ------------ *)

\* response.output[0].content[0].text: the texts the service may answer with
RawTexts ==
    { "",
      "I cannot help with that.",
      "} oops {",
      "{}",
      "Here is the JSON:\n{\"1. Overview\": \"Intro para.\\n\\nSecond para.\", \"1.1 Audience\": \"\"}\nHope it helps.",
      "{\"2.3 Architectural Diagram\": \"Layers.\\n\\n \\n\\n Flows.\\n\", \"9. Unknown\": \"ignored\", \"1.2 Scope\": \" \\n\\n \"}",
      "{\"1. Overview\": null, \"1.1 Audience\": 0, \"2.3 Architectural Diagram\": [], \"Appendix\": {}}",
      "{\"1. Overview\": 5}",
      "{\"1.1 Audience\": [\"a\"], \"1. Overview\": \"Intro.\"}",
      "{\"2.3 Architectural Diagram\": {\"a\": \"b\"}}",
      "{\"1. Overview\": \"x\"} (see {notes})",
      "{oops}" }

Parsed(value) == [ok |-> TRUE, value |-> value]
DecodeError(msg) == [ok |-> FALSE, msg |-> msg]

\* json.loads on the texts extract_json_from_text can hand it here: the
\* parsed object, or the message of the JSONDecodeError it raises
json_loads(text) ==
    CASE text = "{}" -> Parsed(EmptyDict)
      [] text = "{\"1. Overview\": \"Intro para.\\n\\nSecond para.\", \"1.1 Audience\": \"\"}" ->
            Parsed( ("1. Overview" :> JStr("Intro para.\n\nSecond para."))
                    @@ ("1.1 Audience" :> JStr("")) )
      [] text = "{\"2.3 Architectural Diagram\": \"Layers.\\n\\n \\n\\n Flows.\\n\", \"9. Unknown\": \"ignored\", \"1.2 Scope\": \" \\n\\n \"}" ->
            Parsed( ("2.3 Architectural Diagram" :> JStr("Layers.\n\n \n\n Flows.\n"))
                    @@ ("9. Unknown" :> JStr("ignored"))
                    @@ ("1.2 Scope" :> JStr(" \n\n ")) )
      [] text = "{\"1. Overview\": null, \"1.1 Audience\": 0, \"2.3 Architectural Diagram\": [], \"Appendix\": {}}" ->
            Parsed( ("1. Overview" :> JNull)
                    @@ ("1.1 Audience" :> JInt(0))
                    @@ ("2.3 Architectural Diagram" :> JList(<< >>))
                    @@ ("Appendix" :> JDict(EmptyDict)) )
      [] text = "{\"1. Overview\": 5}" ->
            Parsed( "1. Overview" :> JInt(5) )
      [] text = "{\"1.1 Audience\": [\"a\"], \"1. Overview\": \"Intro.\"}" ->
            Parsed( ("1.1 Audience" :> JList(<< JStr("a") >>))
                    @@ ("1. Overview" :> JStr("Intro.")) )
      [] text = "{\"2.3 Architectural Diagram\": {\"a\": \"b\"}}" ->
            Parsed( "2.3 Architectural Diagram" :> JDict("a" :> JStr("b")) )
      [] text = "{\"1. Overview\": \"x\"} (see {notes}" ->
            DecodeError("Extra data: line 1 column 22 (char 21)")
      [] text = "{oops}" ->
            DecodeError("Expecting property name enclosed in double quotes: line 1 column 2 (char 1)")

(* ----------------------- design_doc_logic.py: functions --------------- *)

extract_json_from_text(text) ==
    IF text = "" THEN ""
    ELSE LET start == find(text, "{")
             end   == rfind(text, "}")
         IN  IF start = -1 \/ end = -1 \/ end <= start THEN ""
             ELSE SubSeq(text, start + 1, end + 1)

\* the paragraphs the loop of lines 197-199 adds for a string body
paragraphs(body) ==
    LET chunks == split(body, "\n\n")
        kept   == SelectSeq(chunks, LAMBDA para : strip(para) # "")
    IN  [k \in 1..Len(kept) |-> strip(kept[k])]

(* --------------------------- document elements ------------------------ *)

\* what Document.add_heading, add_paragraph, add_picture and add_page_break
\* append to the body of the document
Heading(text, level) == [kind |-> "heading", text |-> text, level |-> level]
Paragraph(text)      == [kind |-> "paragraph", text |-> text]
Picture(width)       == [kind |-> "picture", width |-> width]
PageBreak            == [kind |-> "page_break"]

(* ------------------------------- requests ----------------------------- *)

NoFile == [present |-> FALSE, filename |-> "", is_docx |-> FALSE,
           text |-> "", paragraphs |-> << >>]

\* an uploaded file: its name, whether its bytes are a Word package, the
\* text its bytes decode to as UTF-8 with errors ignored, and the paragraphs
\* python-docx reads from it
Upload(filename, is_docx, text, paras) ==
    [present |-> TRUE, filename |-> filename, is_docx |-> is_docx,
     text |-> text, paragraphs |-> paras]

Uploads ==
    { NoFile,
      Upload("", FALSE, "", << >>),
      Upload("Stories.TXT", FALSE, "As a user I want a portal.", << >>),
      Upload("stories.docx", TRUE, "PK", << "Story 1", "Story 2" >>),
      Upload("broken.docx", FALSE, "not a package", << >>),
      Upload("stories.pdf", FALSE, "%PDF", << >>) }

FormFields ==
    [project_name : {"", "  ", "Claims Portal"},
     version      : {"", "2.0"},
     prepared_by  : {"", "R&D <Team>"}]

MakeRequest(mode, jira, file, f) ==
    [input_mode |-> mode, jira_text |-> jira, upload_file |-> file,
     project_name |-> f.project_name, version |-> f.version,
     prepared_by |-> f.prepared_by]

\* the POST /generate requests a behaviour draws from: attachment mode with
\* each upload, and the text area (or an input_mode the form does not offer)
\* with an empty, a blank and a filled text
Requests ==
    { MakeRequest("file", "", file, f) : file \in Uploads, f \in FormFields }
    \cup
    { MakeRequest(mode, jira, NoFile, f) :
        mode \in {"text", "api"},
        jira \in {"", " \n", " As a user I want a portal.\n"},
        f \in FormFields }

(* -------------------------------- state ------------------------------- *)

VARIABLES
    catalog,        \* the module-level section list of design_doc_logic.py
    today,          \* the wall-clock date, date.today()
    pc,             \* where the handler of POST /generate is
    request,        \* the form fields and file the request submitted
    raw_text,       \* main.py locals: the stories text,
    project_name,   \*   the (rebound) project_name parameter,
    prepared_by,    \*   the (rebound) prepared_by parameter
    sections,       \* generate_design_doc_bytes locals: the content map,
    doc,            \*   the document under construction,
    idx,            \*   the position of the for loop in the catalog
    exc,            \* the exception that is propagating, if any
    response,       \* the response the handler returned
    prev,           \* the content map and response of the call before, when
                    \* the same request is submitted again
    answer          \* generate_all_sections locals while it runs: raw_text
                    \* (the text of the answer) and json_str

vars == << catalog, today, pc, request, raw_text, project_name, prepared_by,
           sections, doc, idx, exc, response, prev, answer >>

\* generate_all_sections is not running
NoAnswer == [raw_text |-> "", json_str |-> ""]

NoExc == [cls |-> "", msg |-> ""]
Raise(cls, msg) == [cls |-> cls, msg |-> msg]

NoResponse == [kind |-> "none"]
NoPrev == [kind |-> "none"]

NoRequest == MakeRequest("text", "", NoFile,
                         [project_name |-> "", version |-> "", prepared_by |-> ""])

FirstDay == [year |-> 2026, month |-> 11, day |-> 1]

InitLocals ==
    /\ raw_text = ""
    /\ project_name = ""
    /\ prepared_by = ""
    /\ sections = EmptyDict
    /\ doc = << >>
    /\ idx = 0
    /\ exc = NoExc
    /\ answer = NoAnswer

Init ==
    /\ catalog \in Catalogs
    /\ today = FirstDay
    /\ pc = "idle"
    /\ request = NoRequest
    /\ InitLocals
    /\ response = NoResponse
    /\ prev = NoPrev

(* ----------------------- main.py: render_form_page -------------------- *)

\* the parts of the page that depend on the arguments: the alert, the two
\* radio buttons, and the text area and the three text inputs
render_form_page(jira_text, project, version, prepared, input_mode, error_message) ==
    [kind          |-> "form",
     error_html    |-> IF error_message # "" THEN html_escape(error_message)
                       ELSE "",
     text_checked  |-> (input_mode = "text"),
     file_checked  |-> (input_mode = "file"),
     jira_text     |-> html_escape(jira_text),
     project_name  |-> html_escape(project),
     version       |-> html_escape(version),
     prepared_by   |-> html_escape(prepared)]

(* --------------------- main.py: generate_design_doc ------------------- *)

\* a POST /generate request arrives; FastAPI binds the form fields
Post ==
    /\ pc = "idle"
    /\ \E req \in Requests : request' = req /\ project_name' = req.project_name
                             /\ prepared_by' = req.prepared_by
    /\ pc' = "prepare"
    /\ response' = NoResponse
    /\ raw_text' = ""
    /\ sections' = EmptyDict
    /\ UNCHANGED << answer, catalog, today, doc, idx, exc, prev >>

\* lines 365-384: the stories text of the request, or the exception raised
\* while getting it
StoriesOf(req) ==
    IF req.input_mode = "file"
    THEN IF ~req.upload_file.present \/ req.upload_file.filename = ""
         THEN [exc |-> Raise("ValueError",
                  "Please upload a .txt or .docx file when 'Attachment' is selected."),
               text |-> ""]
         ELSE LET filename == lower(req.upload_file.filename)
              IN  IF endswith(filename, ".txt")
                  THEN [exc |-> NoExc, text |-> req.upload_file.text]
                  ELSE IF endswith(filename, ".docx")
                  THEN IF req.upload_file.is_docx
                       THEN [exc |-> NoExc,
                             text |-> join("\n", req.upload_file.paragraphs)]
                       ELSE [exc |-> Raise("PackageNotFoundError",
                                           "Package not found at '<_io.BytesIO object>'"),
                             text |-> ""]
                  ELSE [exc |-> Raise("ValueError",
                                      "Only .txt and .docx files are supported."),
                        text |-> ""]
    ELSE IF strip(req.jira_text) = ""
         THEN [exc |-> Raise("ValueError",
                  "Please enter Jira stories when 'Text area' is selected."),
               text |-> ""]
         ELSE [exc |-> NoExc, text |-> strip(req.jira_text)]

\* lines 386-390: the defaults that replace a blank project name and author
ProjectDefault(name) == IF strip(name) = "" THEN "PROJECT" ELSE name

PreparedDefault(name) == IF strip(name) = "" THEN "Automation Factory" ELSE name

\* lines 363-390: input preparation
PrepareInput ==
    /\ pc = "prepare"
    /\ LET r == StoriesOf(request)
       IN  IF r.exc # NoExc
           THEN /\ exc' = r.exc
                /\ pc' = "except"
                /\ UNCHANGED << raw_text, project_name, prepared_by >>
           ELSE /\ raw_text' = r.text
                /\ project_name' = ProjectDefault(project_name)
                /\ prepared_by' = PreparedDefault(prepared_by)
                /\ pc' = "generate_all_sections"
                /\ exc' = NoExc
    /\ UNCHANGED << answer, catalog, today, request, sections, doc, idx, response, prev >>

(* ------------- design_doc_logic.py: generate_all_sections ------------- *)

\* lines 109-115: what the function does with the text of the answer
SectionsFrom(raw) ==
    LET json_str == extract_json_from_text(raw)
    IN  IF json_str = ""
        THEN [exc |-> Raise("ValueError",
                 "Model did not return valid JSON. Try reducing input text or try again."),
              value |-> EmptyDict]
        ELSE LET r == json_loads(json_str)
             IN  IF r.ok THEN [exc |-> NoExc, value |-> r.value]
                 ELSE [exc |-> Raise("JSONDecodeError", r.msg),
                       value |-> EmptyDict]

\* line 170 and lines 70-115: the single call to the model service, which
\* either raises (no connection, an error status) or answers with a text
generate_all_sections ==
    /\ pc = "generate_all_sections"
    /\ \/ /\ exc' = Raise("APIConnectionError", "Connection error.")
          /\ pc' = "except"
          /\ UNCHANGED sections
       \/ \E raw \in RawTexts :
            LET r == SectionsFrom(raw)
            IN  /\ exc' = r.exc
                /\ sections' = r.value
                /\ pc' = IF r.exc = NoExc THEN "header" ELSE "except"
    /\ UNCHANGED << answer, catalog, today, request, raw_text, project_name,
                    prepared_by, doc, idx, response, prev >>

(* ------------ design_doc_logic.py: generate_design_doc_bytes ---------- *)

\* line 396: the version argument of the call
VersionArg(req) == IF req.version = "" THEN "1.0" ELSE req.version

\* lines 172-180 with the page break added right after the title
HeaderBreakFirst ==
    /\ pc = "header"
    /\ doc' = << Heading("Solution Design Document", 0),
                 PageBreak,
                 Paragraph("Project Name: " \o project_name),
                 Paragraph("Version: " \o VersionArg(request)),
                 Paragraph("Date: " \o isoformat(today)),
                 Paragraph("Prepared By: " \o prepared_by) >>
    /\ idx' = 1
    /\ pc' = "loop"
    /\ UNCHANGED << answer, catalog, today, request, raw_text, project_name,
                    prepared_by, sections, exc, response, prev >>

\* lines 172-180 with one module-level Document() instead of a new one per
\* call: the elements of the document delivered before stay in it
HeaderSharedDocument ==
    /\ pc = "header"
    /\ doc' = (IF prev.kind = "call" /\ prev.response.kind = "download"
               THEN prev.response.body ELSE << >>)
              \o << Heading("Solution Design Document", 0),
                    Paragraph("Project Name: " \o project_name),
                    Paragraph("Version: " \o VersionArg(request)),
                    Paragraph("Date: " \o isoformat(today)),
                    Paragraph("Prepared By: " \o prepared_by),
                    PageBreak >>
    /\ idx' = 1
    /\ pc' = "loop"
    /\ UNCHANGED << answer, catalog, today, request, raw_text, project_name,
                    prepared_by, sections, exc, response, prev >>

\* lines 172-180: a new document, its title, the four lines and the break
Header ==
    /\ pc = "header"
    /\ doc' = << Heading("Solution Design Document", 0),
                 Paragraph("Project Name: " \o project_name),
                 Paragraph("Version: " \o VersionArg(request)),
                 Paragraph("Date: " \o isoformat(today)),
                 Paragraph("Prepared By: " \o prepared_by),
                 PageBreak >>
    /\ idx' = 1
    /\ pc' = "loop"
    /\ UNCHANGED << answer, catalog, today, request, raw_text, project_name,
                    prepared_by, sections, exc, response, prev >>

\* line 184 with "<= 1" for "== 1": a title without a dot becomes top-level
heading_level_at_most_one(section_title) ==
    IF count(section_title, ".") <= 1 THEN 1 ELSE 2

\* line 184
heading_level(section_title) == IF count(section_title, ".") = 1 THEN 1 ELSE 2

\* lines 183-187 with the test of line 194 moved before the heading: a
\* section without content gets no heading
AddHeadingIfBody ==
    /\ pc = "loop"
    /\ idx <= Len(catalog)
    /\ doc' = IF Truthy(get(sections, catalog[idx], JStr("")))
              THEN Append(doc, Heading(catalog[idx], heading_level(catalog[idx])))
              ELSE doc
    /\ pc' = IF catalog[idx] = DIAGRAM_TITLE THEN "diagram" ELSE "body"
    /\ UNCHANGED << answer, catalog, today, request, raw_text, project_name,
                    prepared_by, sections, idx, exc, response, prev >>

\* lines 183-187 with the test of line 194 moved before the diagram block:
\* the diagram section without content gets no picture
AddHeadingBodyFirst ==
    /\ pc = "loop"
    /\ idx <= Len(catalog)
    /\ doc' = Append(doc, Heading(catalog[idx], heading_level(catalog[idx])))
    /\ pc' = IF /\ catalog[idx] = DIAGRAM_TITLE
                /\ Truthy(get(sections, catalog[idx], JStr("")))
             THEN "diagram" ELSE "body"
    /\ UNCHANGED << answer, catalog, today, request, raw_text, project_name,
                    prepared_by, sections, idx, exc, response, prev >>

\* lines 183-187: the next title of the catalog gets its heading
AddHeading ==
    /\ pc = "loop"
    /\ idx <= Len(catalog)
    /\ doc' = Append(doc, Heading(catalog[idx], heading_level(catalog[idx])))
    /\ pc' = IF catalog[idx] = DIAGRAM_TITLE THEN "diagram" ELSE "body"
    /\ UNCHANGED << answer, catalog, today, request, raw_text, project_name,
                    prepared_by, sections, idx, exc, response, prev >>

\* lines 188-191 and 207-275: the diagram is drawn with Pillow, which either
\* raises (a drawing call or the PNG encoder the installation lacks) or
\* returns the bytes of the picture
AddDiagram ==
    /\ pc = "diagram"
    /\ \/ /\ exc' = Raise("OSError", "encoder zip not available")
          /\ pc' = "except"
          /\ UNCHANGED doc
       \/ /\ doc' = doc \o << Paragraph("Diagram (auto-generated):"),
                              Picture(Inches(65)),
                              Paragraph("") >>
          /\ pc' = "body"
          /\ UNCHANGED exc
    /\ UNCHANGED << answer, catalog, today, request, raw_text, project_name,
                    prepared_by, sections, idx, response, prev >>

\* lines 193-199 with sections[section_title] for sections.get(...): a
\* title the content map lacks raises KeyError
AddBodyIndexed ==
    /\ pc = "body"
    /\ IF catalog[idx] \notin DOMAIN sections
       THEN /\ exc' = Raise("KeyError", "'" \o catalog[idx] \o "'")
            /\ pc' = "except"
            /\ UNCHANGED << doc, idx >>
       ELSE LET body == sections[catalog[idx]]
            IN  IF ~Truthy(body)
                THEN /\ idx' = idx + 1
                     /\ pc' = "loop"
                     /\ UNCHANGED << doc, exc >>
                ELSE IF body.t # "str"
                THEN /\ exc' = Raise("AttributeError",
                          "'" \o body.t \o "' object has no attribute 'split'")
                     /\ pc' = "except"
                     /\ UNCHANGED << doc, idx >>
                ELSE /\ doc' = doc \o [k \in 1..Len(paragraphs(body.v)) |->
                                          Paragraph(paragraphs(body.v)[k])]
                     /\ idx' = idx + 1
                     /\ pc' = "loop"
                     /\ UNCHANGED exc
    /\ UNCHANGED << answer, catalog, today, request, raw_text, project_name,
                    prepared_by, sections, response, prev >>

\* lines 193-199: the body of the section
AddBody ==
    /\ pc = "body"
    /\ LET body == get(sections, catalog[idx], JStr(""))
       IN  IF ~Truthy(body)
           THEN /\ idx' = idx + 1
                /\ pc' = "loop"
                /\ UNCHANGED << doc, exc >>
           ELSE IF body.t # "str"
           THEN /\ exc' = Raise("AttributeError",
                     "'" \o body.t \o "' object has no attribute 'split'")
                /\ pc' = "except"
                /\ UNCHANGED << doc, idx >>
           ELSE /\ doc' = doc \o [k \in 1..Len(paragraphs(body.v)) |->
                                     Paragraph(paragraphs(body.v)[k])]
                /\ idx' = idx + 1
                /\ pc' = "loop"
                /\ UNCHANGED exc
    /\ UNCHANGED << answer, catalog, today, request, raw_text, project_name,
                    prepared_by, sections, response, prev >>

\* the locals of the handler and of generate_design_doc_bytes go out of
\* scope when the handler returns; the content map is kept for comparison
\* with the next call
LocalsDropped ==
    /\ raw_text' = ""
    /\ project_name' = ""
    /\ prepared_by' = ""
    /\ doc' = << >>
    /\ idx' = 0
    /\ exc' = NoExc

\* lines 401-407: the download response
StreamingResponse(doc_bytes, project) ==
    [kind |-> "download",
     body |-> doc_bytes,
     media_type |-> "application/vnd.openxmlformats-officedocument.wordprocessingml.document",
     content_disposition |-> "attachment; filename=\""
                             \o replace(project, " ", "_") \o "_design.docx\""]

\* lines 201-204 and 401-407: the loop is over, the document is saved and
\* returned as a download
SaveAndRespond ==
    /\ pc = "loop"
    /\ idx > Len(catalog)
    /\ response' = StreamingResponse(doc, project_name)
    /\ pc' = "idle"
    /\ LocalsDropped
    /\ UNCHANGED << answer, catalog, today, request, sections, prev >>

\* lines 409-431: the two except clauses
ErrorMessage(e) ==
    IF e.cls \in {"ValueError", "JSONDecodeError"} THEN e.msg
    ELSE "Something went wrong while generating the design document. "
         \o "Details: " \o e.msg

\* lines 409-431 with the except clause returning what was built so far:
\* a failure during assembly sends the unfinished document as the download
HandleExceptionSendsPartial ==
    /\ pc = "except"
    /\ response' = IF doc # << >>
                   THEN StreamingResponse(doc, project_name)
                   ELSE render_form_page(request.jira_text, project_name,
                                         request.version, prepared_by,
                                         request.input_mode, ErrorMessage(exc))
    /\ pc' = "idle"
    /\ LocalsDropped
    /\ UNCHANGED << answer, catalog, today, request, sections, prev >>

HandleException ==
    /\ pc = "except"
    /\ response' = render_form_page(request.jira_text, project_name,
                                    request.version, prepared_by,
                                    request.input_mode, ErrorMessage(exc))
    /\ pc' = "idle"
    /\ LocalsDropped
    /\ UNCHANGED << answer, catalog, today, request, sections, prev >>

\* midnight passes
Tick ==
    /\ today.day < MaxDay
    /\ today' = [today EXCEPT !.day = @ + 1]
    /\ UNCHANGED << answer, catalog, pc, request, raw_text, project_name, prepared_by,
                    sections, doc, idx, exc, response, prev >>

Step ==
    \/ PrepareInput
    \/ generate_all_sections
    \/ Header
    \/ AddHeading
    \/ AddDiagram
    \/ AddBody
    \/ SaveAndRespond
    \/ HandleException
    \/ Tick

Next == Post \/ Step

Spec == Init /\ [][Next]_vars

(* ------------------- the same request, submitted twice ---------------- *)

\* the requests of the specification that repeats a call: text mode with
\* every project name, version and author
TwiceRequests ==
    { MakeRequest("text", " As a user I want a portal.\n", NoFile, f) :
        f \in FormFields }

FirstPost ==
    /\ pc = "idle"
    /\ response = NoResponse
    /\ \E req \in TwiceRequests :
          /\ request' = req
          /\ project_name' = req.project_name
          /\ prepared_by' = req.prepared_by
    /\ pc' = "prepare"
    /\ UNCHANGED << answer, catalog, today, raw_text, sections, doc, idx, exc,
                    response, prev >>

\* the request is submitted again, unchanged; the content map and the
\* response of the call before are kept for comparison
Repeat ==
    /\ pc = "idle"
    /\ response # NoResponse
    /\ prev' = [kind |-> "call", sections |-> sections, response |-> response]
    /\ project_name' = request.project_name
    /\ prepared_by' = request.prepared_by
    /\ pc' = "prepare"
    /\ response' = NoResponse
    /\ sections' = EmptyDict
    /\ UNCHANGED << answer, catalog, today, request, raw_text, doc, idx, exc >>

NextTwice == FirstPost \/ Repeat \/ Step

SpecTwice == Init /\ [][NextTwice]_vars

(* ------------------ the paragraphs of one section body ---------------- *)

BodyAlphabet == {"a", " ", "\n"}

RECURSIVE StringsOfLen(_)
StringsOfLen(n) ==
    IF n = 0 THEN {""}
    ELSE {s \o c : s \in StringsOfLen(n - 1), c \in BodyAlphabet}

\* every non-empty body of at most MaxBodyLen characters
Bodies == UNION {StringsOfLen(n) : n \in 1..MaxBodyLen}

SplitRequest ==
    MakeRequest("text", " As a user I want a portal.\n", NoFile,
                [project_name |-> "", version |-> "", prepared_by |-> ""])

\* the assembly is at line 193 for the first title of a two-title catalog,
\* with any of the bodies in the content map
InitSplit ==
    /\ catalog = << "1. Overview", "1.1 Audience" >>
    /\ today = FirstDay
    /\ pc = "body"
    /\ request = SplitRequest
    /\ raw_text = strip(SplitRequest.jira_text)
    /\ project_name = ProjectDefault(SplitRequest.project_name)
    /\ prepared_by = PreparedDefault(SplitRequest.prepared_by)
    /\ \E b \in Bodies : sections = ("1. Overview" :> JStr(b))
    /\ doc = << Heading("Solution Design Document", 0),
                Paragraph("Project Name: PROJECT"),
                Paragraph("Version: 1.0"),
                Paragraph("Date: " \o isoformat(FirstDay)),
                Paragraph("Prepared By: Automation Factory"),
                PageBreak,
                Heading("1. Overview", 1) >>
    /\ idx = 1
    /\ exc = NoExc
    /\ response = NoResponse
    /\ prev = NoPrev
    /\ answer = NoAnswer

NextSplit == AddBody

SpecSplit == InitSplit /\ [][NextSplit]_vars

(* ------------- the JSON object inside the text of an answer ----------- *)

\* what the model service may write before the JSON object, the objects,
\* and what it may write after
Prefixes ==
    { "", "Here is the JSON:\n", "json\n", "Draft {v2}: ", "} " }

Objects ==
    { "{}",
      "{\"1. Overview\": 5}",
      "{\"1. Overview\": \"Intro.\", \"1.1 Audience\": \"\"}",
      "{\"2.3 Architectural Diagram\": {\"a\": \"b\"}}" }

Suffixes ==
    { "", "\nHope it helps.", "\n--", " (see {notes})", " {" }

\* answers without an object to find
Degenerate ==
    { "", "I cannot help with that.", "} oops {", "{ unfinished", "done }",
      "}{" }

AnswerTexts ==
    { p \o j \o x : p \in Prefixes, j \in Objects, x \in Suffixes }
    \cup Degenerate

\* generate_all_sections is at line 109 with the text of the answer in hand
InitExtract ==
    /\ catalog = SECTIONS
    /\ today = FirstDay
    /\ pc = "extract"
    /\ request = SplitRequest
    /\ raw_text = strip(SplitRequest.jira_text)
    /\ project_name = ProjectDefault(SplitRequest.project_name)
    /\ prepared_by = PreparedDefault(SplitRequest.prepared_by)
    /\ sections = EmptyDict
    /\ doc = << >>
    /\ idx = 0
    /\ exc = NoExc
    /\ response = NoResponse
    /\ prev = NoPrev
    /\ \E text \in AnswerTexts : answer = [raw_text |-> text, json_str |-> ""]

\* lines 109-113: the object is extracted; without one ValueError is raised,
\* with one the function goes on to json.loads
ExtractJson ==
    /\ pc = "extract"
    /\ LET json_str == extract_json_from_text(answer.raw_text)
       IN  /\ answer' = [answer EXCEPT !.json_str = json_str]
           /\ exc' = IF json_str = ""
                     THEN Raise("ValueError",
                            "Model did not return valid JSON. Try reducing input text or try again.")
                     ELSE NoExc
           /\ pc' = IF json_str = "" THEN "except" ELSE "json_loads"
    /\ UNCHANGED << catalog, today, request, raw_text, project_name,
                    prepared_by, sections, doc, idx, response, prev >>

NextExtract == ExtractJson

SpecExtract == InitExtract /\ [][NextExtract]_vars

(* -------------------- reading a document back ------------------------- *)

Delivered == response.kind = "download"

\* the positions of the section headings: every heading but the title
\* (python-docx gives level 0 the Title style, not a Heading style)
HeadPos(d) == {i \in 1..Len(d) : d[i].kind = "heading" /\ d[i].level # 0}

SectionHeadings(d) == SelectSeq(d, LAMBDA e : e.kind = "heading" /\ e.level # 0)

NthHead(d, k) ==
    CHOOSE i \in HeadPos(d) : Cardinality({j \in HeadPos(d) : j < i}) = k - 1

\* the elements under the k-th section heading, up to the next heading
SectionBlocks(d, k) ==
    SubSeq(d, NthHead(d, k) + 1,
           IF k = Cardinality(HeadPos(d)) THEN Len(d) ELSE NthHead(d, k + 1) - 1)

Texts(blocks) == [k \in 1..Len(blocks) |-> blocks[k].text]

Pictures(d) == {i \in 1..Len(d) : d[i].kind = "picture"}

\* the number of '.' characters of a title, counted position by position
DotCount(title) == Cardinality({i \in 1..Len(title) : Ch(title, i) = "."})

ScenarioACatalog == << "1. Overview", "1.1 Audience" >>

ScenarioAContent ==
    ("1. Overview" :> JStr("Intro para.\n\nSecond para."))
    @@ ("1.1 Audience" :> JStr(""))

(* ------------------------------- claims ------------------------------- *)

\* C1: whatever the content map holds (titles absent, mapped to "", mapped
\* to text, keys that are no catalog title), the section headings of the
\* delivered document are exactly the catalog: one heading per title, in
\* catalog order, none dropped, repeated or added.
C1_HeadingsAreCatalog ==
    Delivered =>
        /\ Len(SectionHeadings(response.body)) = Len(catalog)
        /\ Texts(SectionHeadings(response.body)) = catalog

\* C1 witness: the shipped catalog delivered from a content map that holds
\* text, lacks most titles and has a key that is no title
C1_Witness ==
    /\ Delivered
    /\ catalog = SECTIONS
    /\ "9. Unknown" \in DOMAIN sections
    /\ "1. Overview" \notin DOMAIN sections

\* C2: the level of every section heading is decided by the number of '.'
\* in its title alone: level 1 for exactly one, level 2 for none or for two
\* or more.
C2_LevelFromDotCount ==
    \A d \in {doc} \cup (IF Delivered THEN {response.body} ELSE {}) :
        \A i \in HeadPos(d) :
            d[i].level = IF DotCount(d[i].text) = 1 THEN 1 ELSE 2

\* C2 witness: a delivered document with titles of zero, one, two and three
\* dots
C2_Witness ==
    /\ Delivered
    /\ {DotCount(response.body[i].text) : i \in HeadPos(response.body)}
           = {0, 1, 2, 3}

\* C3 as claimed: in Scenario A the document has two headings, the first at
\* level 1 and the second at level 2, with two body paragraphs under the
\* first and none under the second.
C3_ScenarioA_Claimed ==
    (Delivered /\ catalog = ScenarioACatalog /\ sections = ScenarioAContent) =>
        /\ Len(SectionHeadings(response.body)) = 2
        /\ SectionHeadings(response.body)[1] = Heading("1. Overview", 1)
        /\ SectionHeadings(response.body)[2] = Heading("1.1 Audience", 2)
        /\ Len(SectionBlocks(response.body, 1)) = 2
        /\ Len(SectionBlocks(response.body, 2)) = 0

\* the title the loop is at, and what the content map holds for it
Title == catalog[idx]

Missing(title) == title \notin DOMAIN sections \/ sections[title] = JStr("")

\* C4: when the title the loop is at is absent from the content map or
\* mapped to the empty string, the body step raises nothing and adds
\* nothing: the section keeps its heading (already the last heading of the
\* document), gets no body paragraph, and the loop moves to the next title.
C4_MissingContentKeepsHeading ==
    [][(pc = "body" /\ pc' # "body" /\ Missing(Title)) =>
          /\ pc' = "loop"
          /\ exc' = NoExc
          /\ idx' = idx + 1
          /\ doc' = doc
          /\ Len(SectionHeadings(doc)) = idx
          /\ SectionHeadings(doc)[idx].text = Title
          /\ SectionBlocks(doc, idx) =
                IF Title = DIAGRAM_TITLE
                THEN << Paragraph("Diagram (auto-generated):"),
                        Picture(5943600), Paragraph("") >>
                ELSE << >>]_vars

\* C4 witness: the loop has passed "1.1 Audience", mapped to "", and is at
\* the next title with that heading last in the document
C4_Witness ==
    /\ pc = "loop"
    /\ idx = 3
    /\ catalog[2] = "1.1 Audience"
    /\ "1.1 Audience" \in DOMAIN sections
    /\ sections["1.1 Audience"] = JStr("")
    /\ doc[Len(doc)] = Heading("1.1 Audience", 1)

\* C5 as claimed: when the content map holds a value that is not a string
\* for the title the loop is at (null, a number, a list, an object), the
\* body step raises nothing and adds no paragraph, and the loop moves on.
C5_NonStringDegrades_Claimed ==
    [][(pc = "body" /\ pc' # "body" /\ Title \in DOMAIN sections
        /\ sections[Title].t # "str") =>
          /\ pc' = "loop"
          /\ exc' = NoExc
          /\ idx' = idx + 1
          /\ doc' = doc]_vars

\* the body paragraphs the content map asks for under a title
ExpectedBody(title) ==
    IF title \in DOMAIN sections /\ sections[title].t = "str"
    THEN [k \in 1..Len(paragraphs(sections[title].v)) |->
             Paragraph(paragraphs(sections[title].v)[k])]
    ELSE << >>

Occurrences(seq, x) == Cardinality({k \in 1..Len(seq) : seq[k] = x})

\* C6: with a catalog that lists the diagram section once, the delivered
\* document holds exactly one picture whatever the content map holds for
\* that section, and under the section's heading come, in this order, the
\* caption, the picture 6.5 inches wide (5943600 EMU), an empty paragraph
\* and then the body paragraphs of the section.
C6_DiagramSectionLayout ==
    (Delivered /\ Occurrences(catalog, DIAGRAM_TITLE) = 1) =>
        LET d == response.body
            k == CHOOSE n \in 1..Len(catalog) : catalog[n] = DIAGRAM_TITLE
        IN  /\ Cardinality(Pictures(d)) = 1
            /\ d[NthHead(d, k)].text = DIAGRAM_TITLE
            /\ SectionBlocks(d, k) =
                  << Paragraph("Diagram (auto-generated):"),
                     Picture(5943600), Paragraph("") >>
                  \o ExpectedBody(DIAGRAM_TITLE)

\* C6 witness: the shipped catalog delivered with two body paragraphs for
\* the diagram section
C6_Witness ==
    /\ Delivered
    /\ catalog = SECTIONS
    /\ Len(ExpectedBody(DIAGRAM_TITLE)) = 2
    /\ Cardinality(Pictures(response.body)) = 1

\* C7: every document starts with the title, the four lines Project Name,
\* Version, Date and Prepared By in this order, and a page break; nothing
\* else precedes the page break and there is no other page break.
C7_HeaderThenOnePageBreak ==
    \A d \in (IF pc \in {"loop", "diagram", "body"} THEN {doc} ELSE {})
             \cup (IF Delivered THEN {response.body} ELSE {}) :
        /\ Len(d) >= 6
        /\ d[1] = Heading("Solution Design Document", 0)
        /\ d[2] = Paragraph("Project Name: "
                            \o ProjectDefault(request.project_name))
        /\ d[3] = Paragraph("Version: " \o VersionArg(request))
        /\ \E day \in 1..today.day :
              d[4] = Paragraph("Date: " \o isoformat([today EXCEPT !.day = day]))
        /\ d[5] = Paragraph("Prepared By: "
                            \o PreparedDefault(request.prepared_by))
        /\ {i \in 1..Len(d) : d[i].kind = "page_break"} = {6}

\* C7 witness: a delivered document of the shipped catalog with sections
\* after the page break
C7_Witness ==
    /\ Delivered
    /\ catalog = SECTIONS
    /\ Len(response.body) > 6 + Len(SECTIONS)
    /\ response.body[6] = PageBreak

\* C8: the paragraphs the assembler emits for a non-empty body are a fixed
\* point of splitting: joined with "\n\n" and split again they give the
\* same list; none of them is empty or has surrounding whitespace.
C8_SplitIsIdempotent ==
    (pc = "loop" /\ idx = 2 /\ Len(SectionHeadings(doc)) = 1
     /\ catalog[1] \in DOMAIN sections /\ sections[catalog[1]].t = "str"
     /\ sections[catalog[1]].v # "") =>
        LET P == Texts(SectionBlocks(doc, 1))
        IN  /\ paragraphs(join("\n\n", P)) = P
            /\ \A k \in 1..Len(P) : P[k] # "" /\ strip(P[k]) = P[k]

\* C8 witness: a body with leading whitespace and two chunks has been split
\* into two paragraphs
C8_Witness ==
    /\ pc = "loop"
    /\ idx = 2
    /\ sections = ("1. Overview" :> JStr(" a\n\na"))
    /\ Texts(SectionBlocks(doc, 1)) = << "a", "a" >>

\* both calls of the repeated request delivered a document from the same
\* content map
SameCallTwice ==
    /\ pc = "idle"
    /\ prev.kind = "call"
    /\ prev.response.kind = "download"
    /\ Delivered
    /\ sections = prev.sections

DateLine(day) == Paragraph("Date: " \o isoformat([today EXCEPT !.day = day]))

C10_ErrorPageKeepsInput_Claimed ==
    (pc = "idle" /\ response.kind = "form") =>
        /\ response.error_html # ""
        /\ response.jira_text = html_escape(request.jira_text)
        /\ response.project_name = html_escape(request.project_name)
        /\ response.version = html_escape(request.version)
        /\ response.prepared_by = html_escape(request.prepared_by)
        /\ response.text_checked = (request.input_mode = "text")
        /\ response.file_checked = (request.input_mode = "file")

\* a complete document: the title, the four lines, the page break, and a
\* section heading for every title of the catalog, in order
Complete(d) ==
    /\ Len(d) >= 6
    /\ d[1] = Heading("Solution Design Document", 0)
    /\ \A i \in 2..5 : d[i].kind = "paragraph"
    /\ d[6] = PageBreak
    /\ Texts(SectionHeadings(d)) = catalog

\* C11: a request ends in one of two outcomes: a download whose bytes are a
\* complete document, or the form page with an error message and no
\* document bytes.  No response exists while the request is being handled,
\* so an unfinished document is never sent.
C11_CompleteDocumentOrErrorPage ==
    /\ pc # "idle" => response = NoResponse
    /\ (pc = "idle" /\ response # NoResponse) =>
          \/ /\ response.kind = "download"
             /\ Complete(response.body)
          \/ /\ response.kind = "form"
             /\ response.error_html # ""
             /\ "body" \notin DOMAIN response

\* C11 witness: the assembly of the shipped catalog failed in a section
\* body, after headings were added, and the request ended on the error page
C11_Witness ==
    /\ pc = "idle"
    /\ catalog = SECTIONS
    /\ "1.1 Audience" \in DOMAIN sections
    /\ sections["1.1 Audience"].t = "list"
    /\ response.kind = "form"
    /\ response.error_html =
          html_escape(ErrorMessage(Raise("AttributeError",
              "'list' object has no attribute 'split'")))

HasEmptyTitle == \E k \in 1..Len(catalog) : catalog[k] = ""

\* C12 as claimed: with a catalog that holds an empty title the assembly
\* never begins: no heading, paragraph or picture of a section is added and
\* no document is delivered.
C12_EmptyTitleRejected_Claimed ==
    HasEmptyTitle =>
        /\ HeadPos(doc) = {}
        /\ Len(doc) <= 6
        /\ ~Delivered

Positions(text, c) == {i \in 1..Len(text) : Ch(text, i) = c}

\* the text has no '{', no '}', or no '}' after its first '{'
NoObjectSpan(text) ==
    \/ Positions(text, "{") = {}
    \/ Positions(text, "}") = {}
    \/ \A i \in Positions(text, "{") : \A j \in Positions(text, "}") : j < i

\* C13 as claimed: from an answer that is a JSON object with any text before
\* and after it, extract_json_from_text returns exactly the object; from a
\* text that is empty or has no '{', no '}' or no '}' after its first '{' it
\* returns "", and generate_all_sections raises ValueError.
C13_ExtractsTheObject_Claimed ==
    pc \in {"json_loads", "except"} =>
        /\ \A p \in Prefixes : \A j \in Objects : \A x \in Suffixes :
              answer.raw_text = p \o j \o x =>
                  answer.json_str = j /\ pc = "json_loads"
        /\ NoObjectSpan(answer.raw_text) =>
              /\ answer.json_str = ""
              /\ pc = "except"
              /\ exc.cls = "ValueError"

====
